---- MODULE Spec2Model ----
(***************************************************************************)
(* Model of split_markdown_V1.py: the heading-level splitter, the          *)
(* recursive splitter, the merge pass and the fragment sink.               *)
(*                                                                         *)
(* Text is a sequence of characters (one-character strings); the token     *)
(* "u00e9" stands for one code point whose UTF-8 encoding is two bytes.    *)
(* Sizes are byte counts: the code divides every size by 1024 and compares *)
(* it with a threshold in KB, the model keeps both sides multiplied by     *)
(* 1024.  Line indexes are 1-based (the code's are 0-based).               *)
(***************************************************************************)
EXTENDS Integers, Sequences, FiniteSets, TLC

VARIABLES
    pc,              \* position in the running call
    content,         \* the document text (f.read()), or the function's input
    header_level,    \* the level handed to split_by_header_level
    parts,           \* what split_by_header_level returned
    max_size,        \* max_size_kb, in bytes
    min_size,        \* min_size_kb, in bytes
    max_level,       \* max_header_level
    source,          \* the text of the file at file_path
    readable,        \* whether open(file_path) succeeds
    error,           \* the exception the call raised, "" when none
    stack,           \* pending calls of split_chunk_recursive: <<chunk, level>>
    initial_chunks,  \* the result list of split_chunk_recursive
    final_chunks,    \* what merge_small_chunks returned
    files0,          \* the output directory before the call
    files,           \* the output directory: file name -> content
    todo,            \* save_chunks: the chunks still to be written
    i,               \* save_chunks: the index of the last chunk written
    saved_files,     \* save_chunks: the names written, in order
    calls            \* the number of calls of split_chunk_recursive begun

vars == <<pc, content, header_level, parts, max_size, min_size, max_level,
          source, readable, error, stack, initial_chunks, final_chunks, files0, files, todo, i,
          saved_files, calls>>

-----------------------------------------------------------------------------
(* Strings *)

SP == " "
TAB == "\t"
NL == "\n"
HASH == "#"
BACKTICK == "backtick"
TILDE == "~"
U00E9 == "u00e9"

\* str.strip() and [ \t] of the regular expressions
Whitespace == {SP, TAB, NL}
Blank == {SP, TAB}

Utf8Width(c) == IF c = U00E9 THEN 2 ELSE 1

RECURSIVE Utf8Len(_)
Utf8Len(text) ==
    IF text = <<>> THEN 0 ELSE Utf8Width(Head(text)) + Utf8Len(Tail(text))

\* len(text.encode('utf-8')) / 1024, times 1024
get_text_size_kb(text) == Utf8Len(text)

RECURSIVE join(_)
\* ''.join(list of strings)
join(ss) == IF ss = <<>> THEN <<>> ELSE Head(ss) \o join(Tail(ss))

\* text.strip() is non-empty
strip_nonempty(text) == \E k \in 1..Len(text) : text[k] \notin Whitespace

endswith_nl(text) == Len(text) > 0 /\ text[Len(text)] = NL

\* line.rstrip('\n\r')
rstrip_nl(line) == IF endswith_nl(line) THEN SubSeq(line, 1, Len(line) - 1) ELSE line

\* the number of leading characters of s, from position from on, that are in set
RECURSIVE run_length(_, _, _)
run_length(s, from, set) ==
    IF from <= Len(s) /\ s[from] \in set THEN 1 + run_length(s, from + 1, set) ELSE 0

RECURSIVE splitlines(_)
\* content.splitlines(keepends=True); "\n" is the only line break of the alphabet
splitlines(text) ==
    IF text = <<>> THEN <<>>
    ELSE LET brk == {k \in 1..Len(text) : text[k] = NL}
             k == IF brk = {} THEN Len(text) ELSE CHOOSE b \in brk : \A c \in brk : b <= c
         IN <<SubSeq(text, 1, k)>> \o splitlines(SubSeq(text, k + 1, Len(text)))

-----------------------------------------------------------------------------
(* The patterns *)

\* _HEADING_RE.match(s): len(match.group(1)), or 0 when there is no match.
\* ^(#{1,6})[ \t]+(.+?)[ \t]*#*[ \t]*$ : the run of leading # is 1..6 long, a
\* blank follows it, and at least one more character follows that blank.
_HEADING_RE(s) ==
    LET k == run_length(s, 1, {HASH})
    IN IF k >= 1 /\ k <= 6 /\ Len(s) >= k + 2 /\ s[k + 1] \in Blank THEN k ELSE 0

\* _FENCE_MARK_RE.match(s): match.group(1), or <<>> when there is no match.
\* ^[ \t]{0,3}([BACKTICK~]{3,})[ \t]*.*$ : at most 3 leading blanks, then a run of 3 or
\* more characters each of which is a backtick or a tilde.
_FENCE_MARK_RE(s) ==
    LET w == run_length(s, 1, Blank)
        r == run_length(s, w + 1, {BACKTICK, TILDE})
    IN IF w <= 3 /\ r >= 3 THEN SubSeq(s, w + 1, w + r) ELSE <<>>

\* None is <<>>; otherwise <<marker[0], len(marker)>>
_parse_fence_marker(line) ==
    LET marker == _FENCE_MARK_RE(rstrip_nl(line))
    IN IF marker = <<>> THEN <<>> ELSE <<marker[1], Len(marker)>>

-----------------------------------------------------------------------------
(* split_by_header_level *)

\* line 57: the marker closes the open fence
fence_closes(mark_char, mark_len, fence_char, fence_len) ==
    mark_char = fence_char /\ mark_len >= fence_len

\* line 63: a line inside a fence is skipped
skip_in_fence(in_fence) == in_fence

RECURSIVE scan(_, _, _, _, _, _)
\* the loop of lines 48-71, from line idx on, in fence state (in_fence,
\* fence_char, fence_len): the indexes appended to heading_indexes
scan(lines, idx, in_fence, fence_char, fence_len, level) ==
    IF idx > Len(lines) THEN <<>>
    ELSE LET line == lines[idx]
             fence == _parse_fence_marker(line)
         IN IF fence # <<>> /\ ~in_fence
            THEN scan(lines, idx + 1, TRUE, fence[1], fence[2], level)
            ELSE IF fence # <<>> /\ fence_closes(fence[1], fence[2], fence_char, fence_len)
            THEN scan(lines, idx + 1, FALSE, "", 0, level)
            ELSE IF skip_in_fence(in_fence)
            THEN scan(lines, idx + 1, in_fence, fence_char, fence_len, level)
            ELSE IF _HEADING_RE(rstrip_nl(line)) = level /\ level # 0
            THEN <<idx>> \o scan(lines, idx + 1, in_fence, fence_char, fence_len, level)
            ELSE scan(lines, idx + 1, in_fence, fence_char, fence_len, level)

heading_indexes(lines, level) == scan(lines, 1, FALSE, "", 0, level)

\* the intro forgotten
intro_chunks_forgotten(lines, first) == <<>>

\* lines 78-81: the intro, kept when it is not blank
intro_chunks(lines, first) ==
    IF first > 1 /\ strip_nonempty(join(SubSeq(lines, 1, first - 1)))
    THEN <<join(SubSeq(lines, 1, first - 1))>>
    ELSE <<>>

RECURSIVE heading_chunks_end_late(_, _, _)
\* the end of the slice one line late
heading_chunks_end_late(lines, idxs, n) ==
    IF n > Len(idxs) THEN <<>>
    ELSE LET start == idxs[n]
             end == IF n + 1 <= Len(idxs) THEN idxs[n + 1] ELSE Len(lines)
             chunk == join(SubSeq(lines, start, end))
         IN (IF strip_nonempty(chunk) THEN <<chunk>> ELSE <<>>)
            \o heading_chunks_end_late(lines, idxs, n + 1)

RECURSIVE heading_chunks(_, _, _)
\* lines 83-87: one chunk per heading, from it to the next heading or the end
heading_chunks(lines, idxs, n) ==
    IF n > Len(idxs) THEN <<>>
    ELSE LET start == idxs[n]
             end == IF n + 1 <= Len(idxs) THEN idxs[n + 1] - 1 ELSE Len(lines)
             chunk == join(SubSeq(lines, start, end))
         IN (IF strip_nonempty(chunk) THEN <<chunk>> ELSE <<>>)
            \o heading_chunks(lines, idxs, n + 1)

split_by_header_level(text, level) ==
    IF ~(1 <= level /\ level <= 6) THEN <<text>>
    ELSE LET lines == splitlines(text)
             idxs == heading_indexes(lines, level)
         IN IF idxs = <<>> THEN <<text>>
            ELSE intro_chunks(lines, idxs[1]) \o heading_chunks(lines, idxs, 1)

-----------------------------------------------------------------------------
(* split_chunk_recursive: a call is a frame <<chunk, current_level>>; the     *)
(* frame on top of the stack is the call that runs next, so the calls run in  *)
(* the order of the recursion and their results are appended in that order.   *)

\* line 99: the chunk fits
fits(chunk, max) == get_text_size_kb(chunk) <= max

\* the retry at the same level
retry_level_same(current_level) == current_level

\* line 107: the level of the retry on the whole chunk
retry_level(current_level) == current_level + 1

\* the parts taken one level too deep
part_level_skips(current_level) == current_level + 2

\* line 111: the level of the calls on the parts
part_level(current_level) == current_level + 1

\* lines 99-112, one call: what it returns at once, and the calls it makes
split_chunk_call(chunk, current_level, max_lvl, max) ==
    IF fits(chunk, max) THEN [ret |-> <<chunk>>, calls |-> <<>>]
    ELSE IF current_level > max_lvl THEN [ret |-> <<chunk>>, calls |-> <<>>]
    ELSE LET ps == split_by_header_level(chunk, current_level)
         IN IF Len(ps) <= 1
            THEN [ret |-> <<>>, calls |-> << <<chunk, retry_level(current_level)>> >>]
            ELSE [ret |-> <<>>,
                  calls |-> [k \in 1..Len(ps) |-> <<ps[k], part_level(current_level)>>]]

-----------------------------------------------------------------------------
(* merge_small_chunks *)

\* the separating newline forgotten
combined_text_no_newline(current, next_chunk) == current \o next_chunk

\* line 126
combined_text(current, next_chunk) ==
    current \o (IF ~endswith_nl(current) THEN <<NL>> ELSE <<>>) \o next_chunk

\* the ceiling taken as a strict bound
accept_merge_strict(current, next_chunk, min, max) ==
    /\ \/ get_text_size_kb(current) < min
       \/ get_text_size_kb(next_chunk) < min
    /\ get_text_size_kb(combined_text(current, next_chunk)) < max

\* the ceiling not looked at
accept_merge_any_size(current, next_chunk, min, max) ==
    \/ get_text_size_kb(current) < min
    \/ get_text_size_kb(next_chunk) < min

\* lines 129-130
accept_merge(current, next_chunk, min, max) ==
    /\ \/ get_text_size_kb(current) < min
       \/ get_text_size_kb(next_chunk) < min
    /\ get_text_size_kb(combined_text(current, next_chunk)) <= max

RECURSIVE merge_loop(_, _, _, _, _)
\* the loop of lines 123-134 over rest, then line 136
merge_loop(merged, current, rest, min, max) ==
    IF rest = <<>> THEN Append(merged, current)
    ELSE IF accept_merge(current, Head(rest), min, max)
         THEN merge_loop(merged, combined_text(current, Head(rest)), Tail(rest), min, max)
         ELSE merge_loop(Append(merged, current), Head(rest), Tail(rest), min, max)

merge_small_chunks(chunks, min, max) ==
    IF chunks = <<>> THEN <<>> ELSE merge_loop(<<>>, chunks[1], Tail(chunks), min, max)

-----------------------------------------------------------------------------
(* save_chunks and its file names *)

RECURSIVE decimal(_)
\* the decimal digits of n >= 0, most significant first
decimal(n) == IF n < 10 THEN <<n>> ELSE Append(decimal(n \div 10), n % 10)

\* the width of {i:02d}
index_width == 2

RECURSIVE zero_pad(_, _)
zero_pad(digits, width) ==
    IF Len(digits) >= width THEN digits ELSE zero_pad(<<0>> \o digits, width)

DigitChar(d) == <<"0", "1", "2", "3", "4", "5", "6", "7", "8", "9">>[d + 1]

\* f"{i:02d}"
format_index(n) ==
    LET ds == zero_pad(decimal(n), index_width) IN [k \in 1..Len(ds) |-> DigitChar(ds[k])]

\* line 160: f"{i:02d}_{base_name}.md"
chunk_filename(n, base_name) ==
    format_index(n) \o <<"_">> \o base_name \o <<".", "m", "d">>

\* line 145: ^\d+_{base}\.md$
is_chunk_filename(name, base_name) ==
    LET d == run_length(name, 1, {"0", "1", "2", "3", "4", "5", "6", "7", "8", "9"})
    IN d >= 1 /\ SubSeq(name, d + 1, Len(name)) = <<"_">> \o base_name \o <<".", "m", "d">>

\* lines 142-150: the directory without the files of an earlier run
_cleanup_existing_chunk_files(dir, base_name) ==
    [name \in {n \in DOMAIN dir : ~is_chunk_filename(n, base_name)} |-> dir[name]]

\* lines 162-163: the directory with one more file written
write_file(dir, name, text) ==
    [n \in DOMAIN dir \cup {name} |-> IF n = name THEN text ELSE dir[n]]

-----------------------------------------------------------------------------
(* _validate_params: the message of the ValueError raised, "" when none *)

\* the floor not compared with the ceiling
_validate_params_no_order(max, min, lvl) ==
    IF max <= 0 THEN "max_size_kb must be > 0"
    ELSE IF min < 0 THEN "min_size_kb must be >= 0"
    ELSE IF ~(1 <= lvl /\ lvl <= 6) THEN "max_header_level must be between 1 and 6"
    ELSE ""

_validate_params(max, min, lvl) ==
    IF max <= 0 THEN "max_size_kb must be > 0"
    ELSE IF min < 0 THEN "min_size_kb must be >= 0"
    ELSE IF min > max THEN "min_size_kb must be <= max_size_kb"
    ELSE IF ~(1 <= lvl /\ lvl <= 6) THEN "max_header_level must be between 1 and 6"
    ELSE ""

\* os.path.getsize(file_path) / 1024, times 1024: the file is UTF-8 text
get_file_size_kb(text) == Utf8Len(text)

\* os.path.splitext(os.path.basename(file_path))[0] of the one source file
base_name_of_source == <<"d">>

-----------------------------------------------------------------------------
(* The steps of split_markdown_document *)

\* line 195
Validate ==
    /\ pc = "start"
    /\ IF _validate_params(max_size, min_size, max_level) # ""
       THEN pc' = "failed" /\ error' = "ValueError"
       ELSE pc' = "open" /\ error' = error
    /\ UNCHANGED <<content, header_level, parts, max_size, min_size, max_level, source,
                   readable, stack, initial_chunks, final_chunks, files0, files, todo,
                   i, saved_files, calls>>

\* lines 197-198
Read ==
    /\ pc = "open"
    /\ IF readable
       THEN pc' = "size" /\ content' = source /\ error' = error
       ELSE pc' = "failed" /\ content' = content /\ error' = "OSError"
    /\ UNCHANGED <<header_level, parts, max_size, min_size, max_level, source, readable,
                   stack, initial_chunks, final_chunks, files0, files, todo, i,
                   saved_files, calls>>

\* lines 204-213: a small file is saved whole, any other is split from level 1
SizeCheck ==
    /\ pc = "size"
    /\ IF get_file_size_kb(source) <= max_size
       THEN pc' = "save" /\ final_chunks' = <<content>> /\ stack' = stack
       ELSE pc' = "split" /\ final_chunks' = final_chunks /\ stack' = << <<content, 1>> >>
    /\ UNCHANGED <<content, header_level, parts, max_size, min_size, max_level, source,
                   readable, error, initial_chunks, files0, files, todo, i, saved_files, calls>>

\* lines 99-112: the call on top of the stack runs
SplitCall ==
    /\ pc = "split"
    /\ stack # <<>>
    /\ LET r == split_chunk_call(Head(stack)[1], Head(stack)[2], max_level, max_size)
       IN /\ initial_chunks' = initial_chunks \o r.ret
          /\ stack' = r.calls \o Tail(stack)
    /\ calls' = calls + 1
    /\ UNCHANGED <<pc, content, header_level, parts, max_size, min_size, max_level,
                   source, readable, error, final_chunks, files0, files, todo, i,
                   saved_files>>

\* line 208: the outermost call has returned
SplitReturn ==
    /\ pc = "split"
    /\ stack = <<>>
    /\ pc' = "merge"
    /\ UNCHANGED <<content, header_level, parts, max_size, min_size, max_level, source,
                   readable, error, stack, initial_chunks, final_chunks, files0, files,
                   todo, i, saved_files, calls>>

\* line 215
Merge ==
    /\ pc = "merge"
    /\ final_chunks' = merge_small_chunks(initial_chunks, min_size, max_size)
    /\ pc' = "save"
    /\ UNCHANGED <<content, header_level, parts, max_size, min_size, max_level, source,
                   readable, error, stack, initial_chunks, files0, files, todo, i,
                   saved_files, calls>>

\* lines 155-158: the directory is made and the files of an earlier run removed
SaveBegin ==
    /\ pc = "save"
    /\ files' = _cleanup_existing_chunk_files(files, base_name_of_source)
    /\ todo' = final_chunks
    /\ i' = 0
    /\ saved_files' = <<>>
    /\ pc' = "write"
    /\ UNCHANGED <<content, header_level, parts, max_size, min_size, max_level, source,
                   readable, error, stack, initial_chunks, final_chunks, files0, calls>>

\* lines 159-164: one chunk is written
SaveWrite ==
    /\ pc = "write"
    /\ todo # <<>>
    /\ LET filename == chunk_filename(i + 1, base_name_of_source)
       IN /\ files' = write_file(files, filename, Head(todo))
          /\ saved_files' = Append(saved_files, filename)
    /\ i' = i + 1
    /\ todo' = Tail(todo)
    /\ UNCHANGED <<pc, content, header_level, parts, max_size, min_size, max_level,
                   source, readable, error, stack, initial_chunks, final_chunks, files0, calls>>

\* lines 166, 206, 218
SaveReturn ==
    /\ pc = "write"
    /\ todo = <<>>
    /\ pc' = "done"
    /\ UNCHANGED <<content, header_level, parts, max_size, min_size, max_level, source,
                   readable, error, stack, initial_chunks, final_chunks, files0, files,
                   todo, i, saved_files, calls>>

\* a call of split_by_header_level(content, header_level)
SplitLevel ==
    /\ pc = "level"
    /\ parts' = split_by_header_level(content, header_level)
    /\ pc' = "done"
    /\ UNCHANGED <<content, header_level, max_size, min_size, max_level, source,
                   readable, error, stack, initial_chunks, final_chunks, files0, files,
                   todo, i, saved_files, calls>>

-----------------------------------------------------------------------------
(* Documents: sequences of lines drawn from a vocabulary *)

H1 == <<HASH, SP, "a">>
H2 == <<HASH, HASH, SP, "a">>
F3 == <<BACKTICK, BACKTICK, BACKTICK>>
F4 == <<BACKTICK, BACKTICK, BACKTICK, BACKTICK>>
T3 == <<TILDE, TILDE, TILDE>>
MX == <<BACKTICK, TILDE, TILDE>>
BL == <<>>
TX == <<"a">>
TU == <<U00E9, "a">>

\* every line ends in a line break, but the last one when final_nl is FALSE
RECURSIVE text_of(_, _)
text_of(lines, final_nl) ==
    IF lines = <<>> THEN <<>>
    ELSE IF Len(lines) = 1 THEN Head(lines) \o (IF final_nl THEN <<NL>> ELSE <<>>)
    ELSE Head(lines) \o <<NL>> \o text_of(Tail(lines), final_nl)

Docs(vocabulary, n) ==
    {text_of(ls, nl) : ls \in UNION {[1..k -> vocabulary] : k \in 0..n}, nl \in BOOLEAN}

MaxLines == 4

StructureVocabulary == {H1, H2, BL, TX, F3}
FenceVocabulary == {H1, F3, F4, T3, MX}

InitLevel ==
    /\ pc = "level"
    /\ content \in Docs(StructureVocabulary, MaxLines) \cup Docs(FenceVocabulary, MaxLines)
    /\ header_level \in 1..6
    /\ parts = <<>>
    /\ max_size = 0 /\ min_size = 0 /\ max_level = 0
    /\ source = <<>> /\ readable = TRUE /\ error = ""
    /\ stack = <<>> /\ initial_chunks = <<>> /\ final_chunks = <<>>
    /\ files0 = <<>> /\ files = <<>> /\ todo = <<>> /\ i = 0 /\ saved_files = <<>>
    /\ calls = 0

SpecLevel == InitLevel /\ [][SplitLevel]_vars

-----------------------------------------------------------------------------
(* Properties of split_by_header_level *)

RECURSIVE SortedSeq(_)
\* the members of a set of numbers, in increasing order
SortedSeq(S) ==
    IF S = {} THEN <<>>
    ELSE LET m == CHOOSE x \in S : \A y \in S : x <= y
         IN <<m>> \o SortedSeq(S \ {m})

\* the consecutive spans of lines that start at line 1 and at the lines of cuts
SpansOf(lines, cuts) ==
    LET starts == SortedSeq({1} \cup cuts)
    IN [j \in 1..Len(starts) |->
          join(SubSeq(lines, starts[j],
                      IF j < Len(starts) THEN starts[j + 1] - 1 ELSE Len(lines)))]

RECURSIVE Pick(_, _, _)
\* the members of seq, from the n-th on, whose index is in keep
Pick(seq, keep, n) ==
    IF n > Len(seq) THEN <<>>
    ELSE (IF n \in keep THEN <<seq[n]>> ELSE <<>>) \o Pick(seq, keep, n + 1)

\* chunks are consecutive line spans of text, in order, the spans left out blank
IsSplitOf(chunks, text) ==
    LET lines == splitlines(text)
    IN \E cuts \in SUBSET (2..Len(lines)) :
          LET spans == SpansOf(lines, cuts)
          IN \E keep \in SUBSET (1..Len(spans)) :
                /\ \A j \in (1..Len(spans)) \ keep : ~strip_nonempty(spans[j])
                /\ chunks = Pick(spans, keep, 1)

\* C3: the fragments split_by_header_level returns are consecutive,
\* non-overlapping line spans of the document in source order, and every span
\* of the document that is not among them is blank.
C3_Coverage == pc = "done" => IsSplitOf(parts, content)

\* a split into several fragments that left a blank intro out
C3_Witness == pc = "done" /\ Len(parts) >= 2 /\ join(parts) # content

\* The fence marker of the specification: after at most 3 leading blanks, a run
\* of 3 or more identical characters, each a backtick or each a tilde.
RunMarker(line) ==
    LET s == rstrip_nl(line)
        w == run_length(s, 1, Blank)
        r == IF w < Len(s) /\ s[w + 1] \in {BACKTICK, TILDE}
             THEN run_length(s, w + 1, {s[w + 1]}) ELSE 0
    IN IF w <= 3 /\ r >= 3 THEN <<s[w + 1], r>> ELSE <<>>

RECURSIVE OutsideFence(_, _, _)
\* the lines, from idx on, that lie outside every fenced block, the fence open
\* before line idx being open (<<>> when none is): a fence opens on a marker and
\* closes on a marker of the same character whose run is at least as long
OutsideFence(lines, idx, open) ==
    IF idx > Len(lines) THEN {}
    ELSE LET mark == RunMarker(lines[idx])
         IN IF open = <<>>
            THEN IF mark # <<>> THEN OutsideFence(lines, idx + 1, mark)
                 ELSE {idx} \cup OutsideFence(lines, idx + 1, open)
            ELSE IF mark # <<>> /\ mark[1] = open[1] /\ mark[2] >= open[2]
                 THEN OutsideFence(lines, idx + 1, <<>>)
                 ELSE OutsideFence(lines, idx + 1, open)

HeadingShaped(lines) == {k \in 1..Len(lines) : _HEADING_RE(rstrip_nl(lines[k])) # 0}

\* C4: every split point lies outside every fenced block, and a document all
\* of whose heading-shaped lines lie inside fenced blocks (closed, or left open
\* to the end of the document) comes back as one fragment, the whole document.
C4_FenceImmunity ==
    pc = "done" =>
        LET lines == splitlines(content)
            outside == OutsideFence(lines, 1, <<>>)
            idxs == heading_indexes(lines, header_level)
        IN /\ \A k \in 1..Len(idxs) : idxs[k] \in outside
           /\ HeadingShaped(lines) \cap outside = {} => parts = <<content>>

-----------------------------------------------------------------------------
(* merge_small_chunks on its own: any list of non-empty fragments *)

MaxFragments == 3
MaxCeiling == 4

FragmentVocabulary ==
    { <<"a">>, <<"a", NL>>, <<U00E9>>, <<"a", "a", "a", NL>>, <<"a", "a", "a", "a", "a">> }

InitMerge ==
    /\ pc = "merge"
    /\ initial_chunks \in UNION {[1..k -> FragmentVocabulary] : k \in 0..MaxFragments}
    /\ max_size \in 1..MaxCeiling
    /\ min_size \in 0..max_size
    /\ content = <<>> /\ header_level = 0 /\ parts = <<>> /\ max_level = 0
    /\ source = <<>> /\ readable = TRUE /\ error = ""
    /\ stack = <<>> /\ final_chunks = <<>>
    /\ files0 = <<>> /\ files = <<>> /\ todo = <<>> /\ i = 0 /\ saved_files = <<>>
    /\ calls = 0

SpecMerge == InitMerge /\ [][Merge]_vars

Sizes(chunks) == [k \in 1..Len(chunks) |-> get_text_size_kb(chunks[k])]

\* C1 as claimed: no fragment merge_small_chunks returns is larger than the
\* ceiling, whatever the input fragments are.
C1_AllWithinCeiling ==
    pc = "save" => \A k \in 1..Len(final_chunks) : Sizes(final_chunks)[k] <= max_size

\* C1: a fragment merge_small_chunks returns is larger than the ceiling only
\* when it is an input fragment, returned as it came, that was larger than the
\* ceiling already; every fragment made by merging is within the ceiling.
C1_MergedWithinCeiling ==
    pc = "save" =>
        \A k \in 1..Len(final_chunks) :
            \/ Sizes(final_chunks)[k] <= max_size
            \/ \E j \in 1..Len(initial_chunks) :
                  /\ initial_chunks[j] = final_chunks[k]
                  /\ Sizes(initial_chunks)[j] > max_size

\* a merge was made, and an input fragment over the ceiling came back
C1_Witness ==
    /\ pc = "save"
    /\ Len(final_chunks) < Len(initial_chunks)
    /\ \E k \in 1..Len(final_chunks) : Sizes(final_chunks)[k] > max_size

\* the joining rule: left, a newline unless left ends in one, right
JoinRule(left, right) ==
    IF Len(left) > 0 /\ left[Len(left)] = NL THEN left \o right ELSE left \o <<NL>> \o right

RECURSIVE FoldFrom(_, _)
FoldFrom(acc, rest) ==
    IF rest = <<>> THEN acc ELSE FoldFrom(JoinRule(acc, Head(rest)), Tail(rest))

\* the fragments folded left to right with the joining rule
JoinFold(chunks) == IF chunks = <<>> THEN <<>> ELSE FoldFrom(Head(chunks), Tail(chunks))

\* C2: the fragments merge_small_chunks returns, folded left to right with the
\* joining rule, give the text its input fragments give when folded the same
\* way; the fragments are non-empty.
C2_SameFold == pc = "save" => JoinFold(final_chunks) = JoinFold(initial_chunks)

\* a merge that put a newline in, and a merge refused
C2_Witness ==
    /\ pc = "save"
    /\ Len(final_chunks) >= 2
    /\ Len(final_chunks) < Len(initial_chunks)
    /\ Len(join(final_chunks)) > Len(join(initial_chunks))

-----------------------------------------------------------------------------
(* split_chunk_recursive from level 1, then merge_small_chunks *)

MaxSplitLines == 4
MaxSplitCeilings == 3
MaxSplitLevel == 3

SplitVocabulary == {H1, H2, BL, TU, F3}

SplitDocs(n) ==
    {text_of(ls, TRUE) : ls \in UNION {[1..k -> SplitVocabulary] : k \in 0..n}}

InitSplit ==
    /\ pc = "split"
    /\ content \in SplitDocs(MaxSplitLines)
    /\ stack = << <<content, 1>> >>
    /\ max_size \in {3 * k : k \in 1..MaxSplitCeilings}
    /\ min_size \in {0, max_size}
    /\ max_level \in 1..MaxSplitLevel
    /\ header_level = 0 /\ parts = <<>>
    /\ source = <<>> /\ readable = TRUE /\ error = ""
    /\ initial_chunks = <<>> /\ final_chunks = <<>>
    /\ files0 = <<>> /\ files = <<>> /\ todo = <<>> /\ i = 0 /\ saved_files = <<>>
    /\ calls = 0

NextSplit == SplitCall \/ SplitReturn \/ Merge

SpecSplit == InitSplit /\ [][NextSplit]_vars

(* split_chunk_recursive from level 1, on its own *)

MaxCallLines == 3

\* before the call
InitCall ==
    /\ pc = "idle"
    /\ content = <<>> /\ stack = <<>> /\ max_size = 0 /\ min_size = 0 /\ max_level = 0
    /\ header_level = 0 /\ parts = <<>>
    /\ source = <<>> /\ readable = TRUE /\ error = ""
    /\ initial_chunks = <<>> /\ final_chunks = <<>>
    /\ files0 = <<>> /\ files = <<>> /\ todo = <<>> /\ i = 0 /\ saved_files = <<>>
    /\ calls = 0

\* the call split_chunk_recursive(content, 1, max_level, max_size)
Enter ==
    /\ pc = "idle"
    /\ content' \in SplitDocs(MaxCallLines)
    /\ stack' = << <<content', 1>> >>
    /\ max_size' \in {3 * k : k \in 1..MaxSplitCeilings}
    /\ max_level' \in 1..MaxSplitLevel
    /\ pc' = "split"
    /\ UNCHANGED <<header_level, parts, min_size, source, readable, error,
                   initial_chunks, final_chunks, files0, files, todo, i, saved_files, calls>>

NextCall == Enter \/ SplitCall \/ SplitReturn

\* a step that begins a call; within NextCall these are the steps of SplitCall,
\* and one is possible exactly when SplitCall is
CallRuns == pc = "split" /\ stack # <<>> /\ calls' = calls + 1

\* the program runs on: the call is made, a pending call runs, and the
\* outermost call returns once none is pending
FairSplit ==
    /\ InitCall /\ [][NextCall]_vars
    /\ WF_pc(Enter) /\ WF_calls(CallRuns) /\ WF_pc(SplitReturn)

\* C5: split_chunk_recursive(document, 1, max_level, ceiling) returns; every
\* call it makes is at the level after its own, and none is made from a level
\* above max_level; the list it returns is not empty and its fragments are
\* the document's consecutive line spans in order, the spans left out blank.
C5_Terminates ==
    /\ <>(pc = "merge")
    /\ [][pc = "split" /\ stack # <<>> =>
            \A k \in 1..(Len(stack') - Len(stack) + 1) :
                /\ stack'[k][2] = Head(stack)[2] + 1
                /\ Head(stack)[2] <= max_level]_vars
    /\ [](pc = "merge" => initial_chunks # <<>> /\ IsSplitOf(initial_chunks, content))

\* the recursion went two levels down and returned several fragments
C5_Witness ==
    /\ pc = "merge"
    /\ Len(initial_chunks) >= 3
    /\ max_level >= 2
    /\ \E k \in 1..Len(initial_chunks) : _HEADING_RE(rstrip_nl(initial_chunks[k])) = 2

\* C9: a fragment split_chunk_recursive returns is within the ceiling or has
\* at most one part at every heading level 1..max_level; a call on a chunk
\* within the ceiling returns that chunk whole; and a call whose split has at
\* most one part calls again on the same whole chunk, one level down.
C9_BestEffort ==
    /\ [](pc = "merge" =>
            \A k \in 1..Len(initial_chunks) :
                \/ Utf8Len(initial_chunks[k]) <= max_size
                \/ \A lvl \in 1..max_level :
                      Len(split_by_header_level(initial_chunks[k], lvl)) <= 1)
    /\ [][pc = "split" /\ stack # <<>> =>
            LET chunk == Head(stack)[1]
                lvl == Head(stack)[2]
            IN /\ Utf8Len(chunk) <= max_size =>
                    /\ initial_chunks' = Append(initial_chunks, chunk)
                    /\ stack' = Tail(stack)
               /\ /\ Utf8Len(chunk) > max_size
                  /\ lvl <= max_level
                  /\ Len(split_by_header_level(chunk, lvl)) <= 1
                  => /\ initial_chunks' = initial_chunks
                     /\ stack' = << <<chunk, lvl + 1>> >> \o Tail(stack)]_vars

\* a fragment over the ceiling came back beside a fragment within it that
\* still holds a deeper heading
C9_Witness ==
    /\ pc = "merge"
    /\ \E k \in 1..Len(initial_chunks) : Utf8Len(initial_chunks[k]) > max_size
    /\ \E k \in 1..Len(initial_chunks) :
          /\ Utf8Len(initial_chunks[k]) <= max_size
          /\ Len(split_by_header_level(initial_chunks[k], 2)) >= 2

\* the lines one scan of the whole text records as headings, at any level
AllHeadings(lines) ==
    UNION {{heading_indexes(lines, lvl)[k] : k \in 1..Len(heading_indexes(lines, lvl))} :
             lvl \in 1..6}

\* C10: every fragment of the final output starts at the first line of the
\* document or at a line that one scan of the whole document, from its first
\* line, records as a heading outside every fence; the fragments are the
\* spans between these lines, a blank span before the first heading left out.
C10_Boundaries ==
    pc = "save" =>
        LET lines == splitlines(content)
        IN \E cuts \in SUBSET (AllHeadings(lines) \ {1}) :
              LET spans == SpansOf(lines, cuts)
              IN \/ final_chunks = spans
                 \/ ~strip_nonempty(spans[1]) /\ final_chunks = Tail(spans)

\* the output has a boundary and the document has a heading-shaped line that
\* lies inside a fence
C10_Witness ==
    /\ pc = "save"
    /\ Len(final_chunks) >= 2
    /\ LET lines == splitlines(content)
       IN HeadingShaped(lines) \ AllHeadings(lines) # {}

-----------------------------------------------------------------------------
(* split_markdown_document *)

MaxPipeLines == 2
MaxPipeCeilings == 2

EmptyDir == <<>>

\* the output directory an earlier run on the same source left, and one file
\* that is not a chunk file
UsedDir ==
    [name \in {chunk_filename(n, base_name_of_source) : n \in 1..3} \cup {<<"x">>}
        |-> <<"o">>]

Init ==
    /\ pc = "start"
    /\ source \in SplitDocs(MaxPipeLines)
    /\ readable \in BOOLEAN
    /\ max_size \in {3 * k : k \in 0..MaxPipeCeilings}
    /\ min_size \in {-1, 0, max_size, max_size + 1}
    /\ max_level \in {0, 1, 2, 7}
    /\ files0 \in {EmptyDir, UsedDir}
    /\ files = files0
    /\ content = <<>> /\ error = ""
    /\ header_level = 0 /\ parts = <<>>
    /\ stack = <<>> /\ initial_chunks = <<>> /\ final_chunks = <<>>
    /\ todo = <<>> /\ i = 0 /\ saved_files = <<>>
    /\ calls = 0

Next ==
    \/ Validate \/ Read \/ SizeCheck \/ SplitCall \/ SplitReturn \/ Merge
    \/ SaveBegin \/ SaveWrite \/ SaveReturn

Spec == Init /\ [][Next]_vars

\* the configuration the specification calls invalid
InvalidConfiguration ==
    max_size <= 0 \/ min_size < 0 \/ min_size > max_size \/ max_level < 1 \/ max_level > 6

\* C7: a call with an invalid configuration fails with the configuration
\* error and goes no further than the validation, also when the source cannot
\* be read; a call whose source cannot be read fails with that error; and a
\* failed call has split nothing and left the output directory as it was.
C7_NoPartialFailure ==
    /\ pc = "failed" =>
          /\ files = files0
          /\ saved_files = <<>>
          /\ calls = 0 /\ stack = <<>> /\ initial_chunks = <<>> /\ final_chunks = <<>>
    /\ InvalidConfiguration =>
          /\ pc \in {"start", "failed"}
          /\ pc = "failed" => error = "ValueError"
    /\ ~InvalidConfiguration /\ ~readable =>
          /\ pc \in {"start", "open", "failed"}
          /\ pc = "failed" => error = "OSError"

\* an invalid configuration and an unreadable source, over a used directory
C7_Witness ==
    /\ pc = "failed"
    /\ InvalidConfiguration
    /\ ~readable
    /\ files0 = UsedDir

-----------------------------------------------------------------------------
(* save_chunks on its own *)

MaxChunks == 100

InitSink ==
    /\ pc = "save"
    /\ final_chunks \in {[k \in 1..n |-> <<"a", NL>>] : n \in 0..MaxChunks}
    /\ files0 \in {EmptyDir, UsedDir}
    /\ files = files0
    /\ content = <<>> /\ header_level = 0 /\ parts = <<>>
    /\ max_size = 0 /\ min_size = 0 /\ max_level = 0
    /\ source = <<>> /\ readable = TRUE /\ error = ""
    /\ stack = <<>> /\ initial_chunks = <<>>
    /\ todo = <<>> /\ i = 0 /\ saved_files = <<>>
    /\ calls = 0

NextSink == SaveBegin \/ SaveWrite \/ SaveReturn

SpecSink == InitSink /\ [][NextSink]_vars

\* the code point of a character of a file name
CodePoint(c) ==
    CASE c = "." -> 46
      [] c = "_" -> 95
      [] c = "d" -> 100
      [] c = "m" -> 109
      [] c = "x" -> 120
      [] OTHER -> 48 + CHOOSE d \in 0..9 : DigitChar(d) = c

RECURSIVE LexLess(_, _)
\* s sorts strictly before t as a character string
LexLess(s, t) ==
    IF t = <<>> THEN FALSE
    ELSE IF s = <<>> THEN TRUE
    ELSE IF CodePoint(Head(s)) # CodePoint(Head(t)) THEN CodePoint(Head(s)) < CodePoint(Head(t))
    ELSE LexLess(Tail(s), Tail(t))

\* C8: the file names one run of save_chunks wrote sort, as character
\* strings, in the order of the fragments.
C8_NamesSortInOrder ==
    pc = "done" =>
        \A a, b \in 1..Len(saved_files) : a < b => LexLess(saved_files[a], saved_files[b])

-----------------------------------------------------------------------------
(* The scenario: three level-1 sections of 5, 40 and 8 units, the second made *)
(* of its heading line and two level-2 sections of 18 and 22 units            *)

\* bytes in one size unit
ScenarioUnit == 1

RECURSIVE Repeat(_, _)
Repeat(c, n) == IF n <= 0 THEN <<>> ELSE <<c>> \o Repeat(c, n - 1)

\* a body of n bytes that ends in a line break
Body(n) == IF n = 0 THEN <<>> ELSE Repeat("a", n - 1) \o <<NL>>

\* a section of n units: a heading line, its title picked by opt, and a body
Section(hashes, n, opt) ==
    LET heading == hashes \o <<SP>> \o (IF opt THEN <<U00E9>> ELSE <<"a">>) \o <<NL>>
    IN heading \o Body(n * ScenarioUnit - Utf8Len(heading))

ScenarioDocs ==
    { Section(<<HASH>>, 5, o1) \o H1 \o <<NL>>
        \o Section(<<HASH, HASH>>, 18, o2) \o Section(<<HASH, HASH>>, 22, o3)
        \o Section(<<HASH>>, 8, o4) :
        o1 \in BOOLEAN, o2 \in BOOLEAN, o3 \in BOOLEAN, o4 \in BOOLEAN }

InitScenario ==
    /\ pc = "split"
    /\ content \in ScenarioDocs
    /\ stack = << <<content, 1>> >>
    /\ max_size = 30 * ScenarioUnit
    /\ min_size = 10 * ScenarioUnit
    /\ max_level = 2
    /\ header_level = 0 /\ parts = <<>>
    /\ source = <<>> /\ readable = TRUE /\ error = ""
    /\ initial_chunks = <<>> /\ final_chunks = <<>>
    /\ files0 = <<>> /\ files = <<>> /\ todo = <<>> /\ i = 0 /\ saved_files = <<>>
    /\ calls = 0

SpecScenario == InitScenario /\ [][NextSplit]_vars

\* the size of the heading line of the second section
HeadingLineSize == Utf8Len(H1 \o <<NL>>)

\* C6 as claimed: split_chunk_recursive returns four fragments of 5, 18, 22
\* and 8 units and merge_small_chunks two, of 23 and 30 units.
C6_FourFragments ==
    /\ pc \in {"merge", "save"} =>
          Sizes(initial_chunks) = <<5 * ScenarioUnit, 18 * ScenarioUnit,
                                    22 * ScenarioUnit, 8 * ScenarioUnit>>
    /\ pc = "save" => Sizes(final_chunks) = <<23 * ScenarioUnit, 30 * ScenarioUnit>>

\* C6: split_chunk_recursive returns five fragments, of 5 units, the heading
\* line of the second section, 18, 22 and 8 units; merge_small_chunks returns
\* two, of 23 units and that heading line, and of 30 units.
C6_FiveFragments ==
    /\ pc \in {"merge", "save"} =>
          /\ Sizes(initial_chunks) = <<5 * ScenarioUnit, HeadingLineSize, 18 * ScenarioUnit,
                                       22 * ScenarioUnit, 8 * ScenarioUnit>>
          /\ initial_chunks[2] = H1 \o <<NL>>
    /\ pc = "save" =>
          Sizes(final_chunks) = <<23 * ScenarioUnit + HeadingLineSize, 30 * ScenarioUnit>>

\* the merge pass has run on the scenario
C6_Witness == pc = "save" /\ content \in ScenarioDocs /\ Len(final_chunks) = 2

====
